---- MODULE Spec2Model ----
(***************************************************************************)
(* A model of cnlpt/models/cnlp.py: the construction of                    *)
(* CnlpModelForClassification (validation, per-task feature extractors and *)
(* classification heads), its forward pass over the ordered task list      *)
(* (feature extraction, fan-in of prior logits, classification head, loss  *)
(* aggregation), and the pure helper generalize_encoder_forward_kwargs.    *)
(*                                                                         *)
(* Tensors are records [shape, val]: shape is the tuple of axis sizes and  *)
(* val maps every index tuple (1-based) to an entry.  Entries are records  *)
(* that name where a value comes from, so that a copy, a repeat or a       *)
(* concatenation can be traced entry by entry.                             *)
(***************************************************************************)
EXTENDS Integers, Sequences, FiniteSets, TLC

(***************************************************************************)
(* Bounds of the model.                                                    *)
(***************************************************************************)
MaxTasks == 2       \* longest task list
MaxLabels == 2      \* largest label vocabulary of a task
Batch == 1          \* batch size of every forward call
SeqLen == 2         \* sequence length of every forward call
HiddenSize == 2     \* encoder hidden size
MaxHeads == 2       \* largest num_rel_attention_heads
MaxDepth == 2       \* deepest encoder
MaxRank == 4        \* largest rank of a label tensor
WeightUnit == 2     \* a loss weight of 1.0, counted in units of 1/WeightUnit
MaxKw == 3          \* number of keyword names of the kwargs universe
FreezeUnit == 2     \* a freeze probability of 1.0, counted in units of 1/FreezeUnit

(***************************************************************************)
(* Python helpers.                                                         *)
(***************************************************************************)
\* seq[i] of a Python sequence of length n is defined for -n <= i < n
PyIndexOk(n, i) == (-n <= i) /\ (i < n)

\* the 1-based position Python's seq[i] reads
PyIndexPos(n, i) == IF i < 0 THEN n + i + 1 ELSE i + 1

RECURSIVE SumSeq(_)
SumSeq(s) == IF s = <<>> THEN 0 ELSE Head(s) + SumSeq(Tail(s))

(***************************************************************************)
(* Tensors.                                                                *)
(***************************************************************************)
\* the index tuples of a tensor of the given shape (of rank 5 at most)
Indices(shape) ==
    LET n == Len(shape)
        ax(k) == 1..shape[k]
    IN  IF n = 0 THEN {<<>>}
        ELSE IF n = 1 THEN {<<a>> : a \in ax(1)}
        ELSE IF n = 2 THEN ax(1) \X ax(2)
        ELSE IF n = 3 THEN ax(1) \X ax(2) \X ax(3)
        ELSE IF n = 4 THEN ax(1) \X ax(2) \X ax(3) \X ax(4)
        ELSE ax(1) \X ax(2) \X ax(3) \X ax(4) \X ax(5)

\* the index tuple ix without its position p
DropAt(ix, p) == [k \in 1..(Len(ix) - 1) |-> IF k < p THEN ix[k] ELSE ix[k + 1]]

\* torch.Tensor.unsqueeze(dim): a new axis of size 1 at (0-based) position dim
Unsqueeze(t, dim) ==
    LET shape == [k \in 1..(Len(t.shape) + 1) |->
                    IF k < dim + 1 THEN t.shape[k]
                    ELSE IF k = dim + 1 THEN 1 ELSE t.shape[k - 1]]
    IN  [shape |-> shape,
         val |-> [ix \in Indices(shape) |-> t.val[DropAt(ix, dim + 1)]]]

\* torch.Tensor.repeat(*sizes): the tensor tiled sizes[k] times along axis k
Repeat(t, sizes) ==
    LET shape == [k \in 1..Len(t.shape) |-> t.shape[k] * sizes[k]]
    IN  [shape |-> shape,
         val |-> [ix \in Indices(shape) |->
                    t.val[[k \in 1..Len(ix) |-> ((ix[k] - 1) % t.shape[k]) + 1]]]]

\* torch.cat((a, b), dim), for a and b that agree on every other axis
Cat(a, b, dim) ==
    LET shape == [k \in 1..Len(a.shape) |->
                    IF k = dim + 1 THEN a.shape[k] + b.shape[k] ELSE a.shape[k]]
    IN  [shape |-> shape,
         val |-> [ix \in Indices(shape) |->
                    IF ix[dim + 1] <= a.shape[dim + 1] THEN a.val[ix]
                    ELSE b.val[[ix EXCEPT ![dim + 1] = @ - a.shape[dim + 1]]]]]

\* the size of the last axis
LastDim(t) == t.shape[Len(t.shape)]

(***************************************************************************)
(* Configurations: the arguments of CnlpConfig and of the constructor.     *)
(***************************************************************************)
TaskNames == <<"t1", "t2", "t3", "t4", "t5", "t6">>

TaskKinds == {"classification", "tagging", "relation"}

\* defaults of CnlpConfig.__init__ and CnlpModelForClassification.__init__
DefaultLayer == -1
DefaultHeadDims == 64
DefaultFreeze == -FreezeUnit
\* a task as declared: its kind and the size of its label vocabulary
Descrs == [kind : TaskKinds, labels : {1, MaxLabels}]

\* the task lists, the empty one included
DescrLists(D) == UNION { [1..n -> D] : n \in 0..MaxTasks }

\* encoders: the family (model_type), the number of layers, and the parameter
\* names of the encoder's forward
KwNames == <<"attention_mask", "token_type_ids", "position_ids", "head_mask",
             "inputs_embeds", "output_attentions", "output_hidden_states",
             "return_dict">>

AllKw == {KwNames[k] : k \in 1..Len(KwNames)}

Encoders ==
    { [model_type |-> "bert", depth |-> 1, params |-> AllKw \cup {"input_ids"}],
      [model_type |-> "modernbert", depth |-> MaxDepth,
       params |-> (AllKw \ {"token_type_ids", "head_mask"}) \cup {"input_ids"}] }

DefaultEncoder == [model_type |-> "bert", depth |-> MaxDepth,
                   params |-> AllKw \cup {"input_ids"}]

MkConfig(descrs, tokens, layer, heads, upt, ftw, enc) ==
    LET n == Len(descrs)
        names == {TaskNames[k] : k \in 1..n}
        pos(nm) == CHOOSE k \in 1..n : TaskNames[k] = nm
    IN  [finetuning_task |-> [k \in 1..n |-> TaskNames[k]],
         label_dictionary |-> [k \in 1..n |->
                                 [name |-> TaskNames[k], labels |-> descrs[k].labels]],
         tagger |-> [nm \in names |-> descrs[pos(nm)].kind = "tagging"],
         relations |-> [nm \in names |-> descrs[pos(nm)].kind = "relation"],
         tokens |-> tokens,
         layer |-> layer,
         num_rel_attention_heads |-> heads,
         rel_attention_head_dims |-> DefaultHeadDims,
         use_prior_tasks |-> upt,
         hidden_size |-> HiddenSize,
         final_task_weight |-> ftw,
         freeze |-> DefaultFreeze,
         bias_fit |-> FALSE,
         encoder |-> enc]

\* loss aggregation: every task list, a final_task_weight below and above 1.0,
\* no fan-in
LossConfigs ==
    { MkConfig(d, FALSE, DefaultLayer, 1, FALSE, w, DefaultEncoder) :
        d \in DescrLists(Descrs), w \in {1, WeightUnit + 1} }

\* fan-in: every task list with use_prior_tasks
FanInConfigs ==
    { MkConfig(d, FALSE, DefaultLayer, MaxHeads, TRUE, WeightUnit, DefaultEncoder) :
        d \in DescrLists(Descrs) }

\* construction: the layer index around the ends of the hidden-state sequence,
\* token pooling, the head count, every kind of task
LayerChoices(depth) == {-(depth + 2), -(depth + 1), DefaultLayer, 0, depth, depth + 1}

CtorConfigs ==
    UNION { { MkConfig(d, tok, l, h, FALSE, WeightUnit, e) :
                d \in DescrLists([kind : TaskKinds, labels : {MaxLabels}]),
                tok \in BOOLEAN, l \in LayerChoices(e.depth), h \in {0, MaxHeads} } :
            e \in Encoders }

\* freezing: a freeze of -1.0, 0, a probability inside (0, 1), 1.0 and above
\* 1.0, with and without bias_fit, over one classification task
FreezeChoices == {DefaultFreeze, 0, 1, FreezeUnit, FreezeUnit + 1}

FreezeConfigs ==
    { [MkConfig(<<[kind |-> "classification", labels |-> MaxLabels]>>, FALSE,
                DefaultLayer, 1, FALSE, WeightUnit, DefaultEncoder)
         EXCEPT !.freeze = f, !.bias_fit = b] :
        f \in FreezeChoices, b \in BOOLEAN }

\* label_dictionary and finetuning_task are separate arguments of CnlpConfig:
\* the fan-in configurations whose dictionary lists the tasks in the reverse
\* of the order of finetuning_task
ReverseDictionary(c) ==
    LET n == Len(c.label_dictionary)
    IN  [c EXCEPT !.label_dictionary = [k \in 1..n |-> c.label_dictionary[n + 1 - k]]]

OrderConfigs ==
    { ReverseDictionary(MkConfig(d, FALSE, DefaultLayer, MaxHeads, TRUE, WeightUnit,
                                 DefaultEncoder)) :
        d \in DescrLists([kind : TaskKinds, labels : {MaxLabels}]) }

Configs ==
    LossConfigs \cup FanInConfigs \cup CtorConfigs \cup FreezeConfigs \cup OrderConfigs

(***************************************************************************)
(* Construction.                                                           *)
(***************************************************************************)
\* the errors construction raises
LayerError == "ValueError: the layer specified is too big for the specified encoder"

HeadsError == "Exception: num_attention_heads must be > 0 for relations"

TokensError == "Exception: tokens cannot be true in tagger or relation mode"

\* CnlpModelForClassification.num_layers
num_layers(enc) ==
    IF enc.model_type = "modernbert" THEN enc.depth  \* len(base_model.layers)
    ELSE enc.depth                                   \* len(encoder.encoder.layer)

\* a variant of the layer check that also rejects the last layer
LayerTooBigOrLast(config) == config.layer >= num_layers(config.encoder)

\* the check of the layer index in CnlpModelForClassification.__init__
LayerTooBig(config) == config.layer > num_layers(config.encoder)

\* a variant that rejects token pooling with the tagger flag only
ProjectionErrorTaggerOnly(tokens, tagger, relations, num_attention_heads) ==
    IF num_attention_heads <= 0 /\ relations
    THEN HeadsError
    ELSE IF tokens /\ tagger
    THEN TokensError
    ELSE ""

\* the named parameters of the encoder; a name is the tuple of its dotted parts
EncoderParams ==
    { <<"embeddings", "word_embeddings", "weight">>,
      <<"encoder", "layer", "0", "output", "dense", "weight">>,
      <<"encoder", "layer", "0", "output", "dense", "bias">> }

\* `word in name`, for a word that is one of the dotted parts
NameContains(name, word) == \E k \in 1..Len(name) : name[k] = word

\* requires_grad of the parameters of the encoder from_pretrained returns
Pretrained == [p \in EncoderParams |-> TRUE]

\* the values random.random() can return, one per parameter; no dart is drawn
\* unless freeze lies inside (0, 1)
DartSets(freeze) ==
    IF freeze > 0 /\ freeze < FreezeUnit
    THEN [EncoderParams -> 0..(FreezeUnit - 1)]
    ELSE {[p \in EncoderParams |-> 0]}

\* freeze_encoder_weights(encoder, freeze)
freeze_encoder_weights(requires_grad, freeze, darts) ==
    [p \in EncoderParams |->
        IF freeze >= FreezeUnit THEN FALSE
        ELSE IF darts[p] < freeze THEN FALSE
        ELSE requires_grad[p]]

\* a variant of the bias_fit loop that makes the bias parameters trainable
BiasFitResets(requires_grad) ==
    [p \in EncoderParams |-> NameContains(p, "bias")]

\* the bias_fit loop of __init__
BiasFit(requires_grad) ==
    [p \in EncoderParams |->
        IF ~NameContains(p, "bias") THEN FALSE ELSE requires_grad[p]]

\* the two freezing policies of __init__, in the order of the code
FreezePolicies(config, darts) ==
    LET thawed == Pretrained
        after_freeze == IF config.freeze > 0
                        THEN freeze_encoder_weights(thawed, config.freeze, darts)
                        ELSE thawed
    IN  IF config.bias_fit THEN BiasFit(after_freeze) ELSE after_freeze

\* RepresentationProjectionLayer.__init__: the error it raises ("" for none)
ProjectionError(tokens, tagger, relations, num_attention_heads) ==
    IF num_attention_heads <= 0 /\ relations
    THEN HeadsError
    ELSE IF tokens /\ (tagger \/ relations)
    THEN TokensError
    ELSE ""

\* RepresentationProjectionLayer.__init__: the layer it builds
ProjectionInit(config, layer, tokens, tagger, relations, num_attention_heads, head_size) ==
    [dense |-> IF relations THEN "Identity" ELSE "Linear",
     layer_to_use |-> layer,
     tokens |-> tokens,
     tagger |-> tagger,
     relations |-> relations,
     hidden_size |-> config.hidden_size,
     num_attention_heads |-> IF relations THEN num_attention_heads ELSE 0,
     attention_head_size |-> IF relations THEN head_size ELSE 0]

\* ClassificationHead.__init__: the linear projection it holds
ClassificationHead(config, num_labels, hidden_size) ==
    [in_features |-> IF hidden_size < 0 THEN config.hidden_size ELSE hidden_size,
     out_features |-> num_labels]

\* the input width of the head of a relation task
RelationHeadWidth(config, total_prev_task_labels) ==
    IF config.use_prior_tasks
    THEN config.num_rel_attention_heads + total_prev_task_labels
    ELSE config.num_rel_attention_heads

\* the loop over config.label_dictionary.items() of __init__, from entry k on
RECURSIVE BuildTasks(_, _, _, _, _)
BuildTasks(config, k, total_prev_task_labels, fx, cl) ==
    IF k > Len(config.label_dictionary)
    THEN [error |-> "", feature_extractors |-> fx, classifiers |-> cl]
    ELSE LET task_name == config.label_dictionary[k].name
             task_num_labels == config.label_dictionary[k].labels
             err == ProjectionError(config.tokens, config.tagger[task_name],
                                    config.relations[task_name],
                                    config.num_rel_attention_heads)
             layer == ProjectionInit(config, config.layer, config.tokens,
                                     config.tagger[task_name],
                                     config.relations[task_name],
                                     config.num_rel_attention_heads,
                                     config.rel_attention_head_dims)
             head == IF config.relations[task_name]
                     THEN ClassificationHead(config, task_num_labels,
                              RelationHeadWidth(config, total_prev_task_labels))
                     ELSE ClassificationHead(config, task_num_labels, -1)
         IN  IF err # ""
             THEN [error |-> err, feature_extractors |-> fx, classifiers |-> cl]
             ELSE BuildTasks(config, k + 1, total_prev_task_labels + task_num_labels,
                             fx @@ (task_name :> layer), cl @@ (task_name :> head))

\* CnlpModelForClassification.__init__
ModelInit(config, darts) ==
    LET built == BuildTasks(config, 1, 0, <<>>, <<>>)
    IN  IF LayerTooBig(config)
        THEN [error |-> LayerError]
        ELSE IF built.error # ""
        THEN [error |-> built.error]
        ELSE [error |-> "",
              tasks |-> config.finetuning_task,
              feature_extractors |-> built.feature_extractors,
              classifiers |-> built.classifiers,
              tagger |-> config.tagger,
              relations |-> config.relations,
              label_dictionary |-> config.label_dictionary,
              final_task_weight |-> config.final_task_weight,
              use_prior_tasks |-> config.use_prior_tasks,
              darts |-> darts,
              requires_grad |-> FreezePolicies(config, darts)]

(***************************************************************************)
(* Entries of tensors.  v is the floating-point value of an entry that is  *)
(* computed from the encoder's hidden states; an entry that a learned      *)
(* layer produces is symbolic and is named by its source tensor (src, task)*)
(* and its index there (ix).  ops lists the layers applied to it since.    *)
(***************************************************************************)
Finite(n) == [fp |-> "finite", num |-> n, den |-> 1]

Symbolic == [fp |-> "symbolic", num |-> 0, den |-> 1]

\* a / n in floating point, for integers a and n: x / 0 is nan or an infinity,
\* never an error
FloatDiv(a, n) ==
    IF n # 0 THEN [fp |-> "finite", num |-> a, den |-> n]
    ELSE IF a = 0 THEN [fp |-> "nan", num |-> 0, den |-> 0]
    ELSE [fp |-> "inf", num |-> a, den |-> 0]

Entry(src, task, ix, v) == [src |-> src, task |-> task, ix |-> ix, v |-> v, ops |-> <<>>]

\* layers applied, in order, to every entry of a tensor
Through(t, layers) ==
    [shape |-> t.shape,
     val |-> [ix \in Indices(t.shape) |-> [t.val[ix] EXCEPT !.ops = @ \o layers]]]

\* torch.Tensor.permute(*dims): axis k of the result is axis dims[k] of t
Permute(t, dims) ==
    LET shape == [k \in 1..Len(dims) |-> t.shape[dims[k] + 1]]
        inv == [a \in 1..Len(dims) |-> CHOOSE k \in 1..Len(dims) : dims[k] + 1 = a]
    IN  [shape |-> shape,
         val |-> [ix \in Indices(shape) |->
                    t.val[[a \in 1..Len(dims) |-> ix[inv[a]]]]]]

(***************************************************************************)
(* The encoder: outputs.hidden_states is a tuple of depth + 1 tensors of   *)
(* shape (batch, seq, hidden).  The encoder is opaque; its values are      *)
(* distinct integers, so that a value names the place it comes from.       *)
(***************************************************************************)
HiddenValue(l, b, i, d) == ((l * Batch + b) * SeqLen + i) * HiddenSize + d

HiddenStates(enc) ==
    [l \in 1..(enc.depth + 1) |->
        [shape |-> <<Batch, SeqLen, HiddenSize>>,
         val |-> [ix \in Indices(<<Batch, SeqLen, HiddenSize>>) |->
                    HiddenValue(l, ix[1], ix[2], ix[3])]]]

(***************************************************************************)
(* RepresentationProjectionLayer.forward                                   *)
(***************************************************************************)
\* the token-pooling branch: the mean of the hidden vectors of the flagged positions
TokenPool(task, l, h, event_tokens, hidden_size) ==
    LET seq_length == h.shape[2]
        event_toks_per_seq(b) ==
            SumSeq([i \in 1..seq_length |-> event_tokens.val[<<b, i>>]])
        \* filtered_features = features[layer] * expanded_tokens, summed over axis 1
        filtered_sum(b, d) ==
            SumSeq([i \in 1..seq_length |->
                      h.val[<<b, i, d>>] * event_tokens.val[<<b, i>>]])
        shape == <<h.shape[1], hidden_size>>
    IN  [shape |-> shape,
         val |-> [ix \in Indices(shape) |->
                    Entry("pool", task, <<l, ix[1], ix[2]>>,
                          FloatDiv(filtered_sum(ix[1], ix[2]),
                                   event_toks_per_seq(ix[1])))]]

\* the tagger branch: the hidden states of the layer, one vector per position
TaggerFeatures(task, l, h) ==
    [shape |-> h.shape,
     val |-> [ix \in Indices(h.shape) |->
                Entry("hidden", task, <<l>> \o ix, Finite(h.val[ix]))]]

\* the relation branch: attention_scores[b, head, i, j] is the product of the
\* query of position i and the key of position j, scaled, and then permuted
\* to (batch, seq, seq, heads)
RelationFeatures(task, h, num_attention_heads) ==
    LET seq_length == h.shape[2]
        sshape == <<h.shape[1], num_attention_heads, seq_length, seq_length>>
        attention_scores ==
            [shape |-> sshape,
             val |-> [ix \in Indices(sshape) |->
                        [src |-> "score", task |-> task, ix |-> ix, v |-> Symbolic,
                         ops |-> <<"matmul(query,key^T)", "/sqrt(head_size)">>]]]
    IN  Permute(attention_scores, <<0, 2, 3, 1>>)

\* the default branch: the hidden vector of the first position
ClsFeatures(task, l, h) ==
    LET shape == <<h.shape[1], h.shape[3]>>
    IN  [shape |-> shape,
         val |-> [ix \in Indices(shape) |->
                    Entry("hidden", task, <<l, ix[1], 1, ix[2]>>,
                          Finite(h.val[<<ix[1], 1, ix[2]>>]))]]

\* a variant that returns the relation scores as they are
PostProcessButRelation(layer, x) ==
    IF layer.dense = "Identity" THEN x
    ELSE Through(x, <<"dropout", "dense", "tanh">>)

\* x = tanh(dense(dropout(x))), in every mode
PostProcess(layer, x) ==
    Through(x, <<"dropout", IF layer.dense = "Identity" THEN "identity" ELSE "dense",
                 "tanh">>)

\* the branch taken (before dropout, dense and tanh)
Branch(layer, task, features, event_tokens) ==
    LET l == PyIndexPos(Len(features), layer.layer_to_use)
        h == features[l]
    IN  IF layer.tokens THEN TokenPool(task, l, h, event_tokens, layer.hidden_size)
        ELSE IF layer.tagger THEN TaggerFeatures(task, l, h)
        ELSE IF layer.relations THEN RelationFeatures(task, h, layer.num_attention_heads)
        ELSE ClsFeatures(task, l, h)

\* the error forward raises ("" for none): features[self.layer_to_use] is
\* outside the tuple, or there is no mask to pool over
ExtractError(layer, features, event_tokens) ==
    IF layer.tokens /\ ~event_tokens.present
    THEN "AttributeError: event_tokens is None"
    ELSE IF ~PyIndexOk(Len(features), layer.layer_to_use)
    THEN "IndexError: tuple index out of range"
    ELSE ""

Extract(layer, task, features, event_tokens) ==
    PostProcess(layer, Branch(layer, task, features, event_tokens))

(***************************************************************************)
(* ClassificationHead.forward                                              *)
(***************************************************************************)
\* the tensor of the logits of a task, of a given shape
LogitsTensor(task, shape) ==
    [shape |-> shape,
     val |-> [ix \in Indices(shape) |->
                [src |-> "logit", task |-> task, ix |-> ix, v |-> Symbolic,
                 ops |-> <<"dropout", "out_proj">>]]]

\* nn.Linear applies to a tensor whose last axis has in_features entries
ShapeError == "RuntimeError: mat1 and mat2 shapes cannot be multiplied"

HeadError(head, features) ==
    IF LastDim(features) # head.in_features THEN ShapeError ELSE ""

\* the shape of the logits: the last axis becomes num_labels
HeadShape(head, features) ==
    [k \in 1..Len(features.shape) |->
        IF k = Len(features.shape) THEN head.out_features ELSE features.shape[k]]

(***************************************************************************)
(* CnlpModelForClassification.predict_relations_with_previous_logits       *)
(***************************************************************************)
\* a variant that broadcasts the prior logits along a new axis 1
AugmentTransposed(features, prior_task_logits, seq_len) ==
    LET aug == Repeat(Unsqueeze(prior_task_logits, 1), <<1, seq_len, 1, 1>>)
    IN  Cat(features, aug, 3)

\* one prior task's logits broadcast along a new axis 2 and concatenated
Augment(features, prior_task_logits, seq_len) ==
    LET aug == Repeat(Unsqueeze(prior_task_logits, 2), <<1, 1, seq_len, 1>>)
    IN  Cat(features, aug, 3)

\* the loop over the prior logits, from entry k on; logits holds (task, shape)
RECURSIVE FanIn(_, _, _, _, _)
FanIn(features, logits, k, seq_len, warned) ==
    IF k > Len(logits) THEN [features |-> features, warnings |-> warned]
    ELSE LET prior_task_logits == LogitsTensor(logits[k].task, logits[k].shape)
         IN  IF Len(features.shape) = 4
             THEN IF Len(prior_task_logits.shape) = 3
                  THEN FanIn(Augment(features, prior_task_logits, seq_len),
                             logits, k + 1, seq_len, warned)
                  ELSE FanIn(features, logits, k + 1, seq_len,
                             Append(warned, [msg |-> "not implemented: task added to a relation matrix",
                                             about |-> logits[k].task]))
             ELSE IF Len(features.shape) = 3
             THEN FanIn(features, logits, k + 1, seq_len,
                        Append(warned, [msg |-> "not implemented: previous task added to a sequence task",
                                        about |-> logits[k].task]))
             ELSE FanIn(features, logits, k + 1, seq_len, warned)

predict_relations_with_previous_logits(features, logits) ==
    FanIn(features, logits, 1, features.shape[2], <<>>)

(***************************************************************************)
(* generalize_encoder_forward_kwargs.  A keyword bag is the sequence of    *)
(* its (name, value) pairs, in the order Python keeps them; the value      *)
(* "None" is Python's None.                                                *)
(***************************************************************************)
\* the loop over kwargs.items(), from entry k on
\* a variant that drops the accepted keys whose value is None
RECURSIVE FilterKwargsDropNone(_, _, _, _, _)
FilterKwargsDropNone(params, kwargs, k, new_kwargs, warned) ==
    IF k > Len(kwargs) THEN [new_kwargs |-> new_kwargs, warnings |-> warned]
    ELSE LET name == kwargs[k].name
             value == kwargs[k].value
         IN  IF name \notin params /\ value # "None"
             THEN FilterKwargsDropNone(params, kwargs, k + 1, new_kwargs,
                               Append(warned, [msg |-> "parameter not present for encoder class",
                                               about |-> name]))
             ELSE IF name \in params /\ value # "None"
             THEN FilterKwargsDropNone(params, kwargs, k + 1,
                               Append(new_kwargs, kwargs[k]), warned)
             ELSE FilterKwargsDropNone(params, kwargs, k + 1, new_kwargs, warned)

RECURSIVE FilterKwargs(_, _, _, _, _)
FilterKwargs(params, kwargs, k, new_kwargs, warned) ==
    IF k > Len(kwargs) THEN [new_kwargs |-> new_kwargs, warnings |-> warned]
    ELSE LET name == kwargs[k].name
             value == kwargs[k].value
         IN  IF name \notin params /\ value # "None"
             THEN FilterKwargs(params, kwargs, k + 1, new_kwargs,
                               Append(warned, [msg |-> "parameter not present for encoder class",
                                               about |-> name]))
             ELSE IF name \in params
             THEN FilterKwargs(params, kwargs, k + 1,
                               Append(new_kwargs, kwargs[k]), warned)
             ELSE FilterKwargs(params, kwargs, k + 1, new_kwargs, warned)

generalize_encoder_forward_kwargs(encoder, kwargs) ==
    FilterKwargs(encoder.params, kwargs, 1, <<>>, <<>>)

(***************************************************************************)
(* CnlpModelForClassification.compute_loss.  The loss of task k is an      *)
(* opaque scalar L_k; the running loss is the linear combination of the    *)
(* L_k it holds, loss[k] being the coefficient of L_k in units of          *)
(* 1/WeightUnit.  The label tensor is known by its rank (ndim); what is    *)
(* read of it is the indexing expression, one selector per indexed axis.   *)
(***************************************************************************)
All == [sel |-> "all", lo |-> 0, hi |-> 0]

At(i) == [sel |-> "at", lo |-> i, hi |-> i]

Range(a, b) == [sel |-> "range", lo |-> a, hi |-> b]

IsPlain(m, task_name) == ~m.relations[task_name] /\ ~m.tagger[task_name]

\* the indexing expression applied to labels (<<>>: the whole tensor)
LabelIndex(m, labels, task_ind, task_num_labels, seq_len, st) ==
    LET task_name == m.tasks[task_ind + 1]
        cursor == st.task_label_ind
    IN  IF task_num_labels = 1 THEN <<>>
        ELSE IF m.relations[task_name]
        THEN <<All, All, Range(cursor, cursor + seq_len)>>
        ELSE IF m.tagger[task_name]
        THEN IF labels.ndim = 2 THEN <<>>
             ELSE IF labels.ndim = 3 THEN <<All, All, At(cursor)>>
             ELSE <<All, At(0), At(cursor), All>>
        ELSE IF labels.ndim = 1 THEN <<>>
             ELSE IF labels.ndim = 2 THEN <<All, At(task_ind)>>
             ELSE <<All, At(0), At(task_ind)>>

\* the loss function of the task, applied to its logits and the labels read
LossFct(task_num_labels) ==
    IF task_num_labels = 1 THEN "MSELoss" ELSE "CrossEntropyLoss"

\* a variant in which a relation task moves the cursor by one column
CursorAdvanceByOne(m, task_ind, task_num_labels, seq_len) ==
    IF task_num_labels = 1 THEN 0 ELSE 1

\* how far the task moves state["task_label_ind"]
CursorAdvance(m, task_ind, task_num_labels, seq_len) ==
    LET task_name == m.tasks[task_ind + 1]
    IN  IF task_num_labels = 1 THEN 0
        ELSE IF m.relations[task_name] THEN seq_len
        ELSE 1

\* a variant without the rank-3 branch
PlainRankUpToTwo(ndim) == ndim \in {1, 2}

\* the ranks of labels a plain classification task can address
PlainRankSupported(ndim) == ndim \in {1, 2, 3}

RankError == "NotImplementedError: classification task in an MTL setup with relations and sequence tagging"

TooManyIndices == "IndexError: too many indices for tensor"

\* CrossEntropyLoss over logits permuted to (batch, classes, seq, seq) takes a
\* target of class indices of rank 3 only
TargetRankError == "RuntimeError: only batches of spatial targets supported (3D tensors)"

\* the error compute_loss raises ("" for none)
LossError(m, labels, task_ind, task_num_labels, seq_len, st) ==
    LET task_name == m.tasks[task_ind + 1]
    IN  IF task_num_labels # 1 /\ IsPlain(m, task_name) /\ ~PlainRankSupported(labels.ndim)
        THEN RankError
        ELSE IF Len(LabelIndex(m, labels, task_ind, task_num_labels, seq_len, st)) > labels.ndim
        THEN TooManyIndices
        ELSE IF task_num_labels # 1 /\ m.relations[task_name] /\ labels.ndim # 3
        THEN TargetRankError
        ELSE ""

\* the weight of the task's loss once the running loss is set
TaskWeight(m, task_ind) ==
    IF task_ind + 1 < Len(m.tasks) THEN WeightUnit ELSE m.final_task_weight

\* the fold of the task's loss into state["loss"]
FoldLoss(m, task_ind, st) ==
    IF st.loss_none
    THEN [st EXCEPT !.loss_none = FALSE, !.loss[task_ind + 1] = WeightUnit]
    ELSE [st EXCEPT !.loss[task_ind + 1] = @ + TaskWeight(m, task_ind)]

compute_loss(m, labels, task_ind, task_num_labels, seq_len, st) ==
    LET moved == [st EXCEPT !.task_label_ind =
                     @ + CursorAdvance(m, task_ind, task_num_labels, seq_len)]
    IN  FoldLoss(m, task_ind, moved)

\* len(self.label_dictionary[task_name])
NumLabels(m, task_name) ==
    LET k == CHOOSE j \in 1..Len(m.label_dictionary) : m.label_dictionary[j].name = task_name
    IN  m.label_dictionary[k].labels

(***************************************************************************)
(* State.                                                                  *)
(***************************************************************************)
VARIABLES
    cfg,           \* the configuration and constructor arguments
    pc,            \* "new", "constructed", "ctor_failed", "loop", "returned",
                   \* "raised"; "kw", "kw_done" for the kwargs filter alone
    error,         \* the error raised by the last operation ("" for none)
    model,         \* the fields of the constructed CnlpModelForClassification
    labels,        \* forward's labels argument: [present, ndim]
    event_tokens,  \* forward's event_tokens argument: [present, shape, val]
    kw_in,         \* the keyword bag given to generalize_encoder_forward_kwargs
    kw_out,        \* the bag it returns
    warnings,      \* the diagnostics logged by the current call
    task_ind,      \* the number of tasks the loop of forward has completed
    logits,        \* forward's list of logits, one (task, shape) per tensor
    state,         \* forward's state dict: loss and task_label_ind
    features,      \* the features extracted for the task of the last iteration
    head_in,       \* the features given to that task's classification head
    reads,         \* per task whose loss was computed, what it read of labels
    result,        \* the returned SequenceClassifierOutput
    recalled       \* the current forward call is not the first on this model

vars == <<cfg, pc, error, model, labels, event_tokens, kw_in, kw_out, warnings,
          task_ind, logits, state, features, head_in, reads, result, recalled>>

NoModel == [error |-> "not constructed"]

NoTensor == [shape |-> <<0>>, val |-> <<>>]

NoLabels == [present |-> FALSE, ndim |-> 0]

NoEventTokens == [present |-> FALSE, shape |-> <<0>>, val |-> <<>>]

NoResult == [returned |-> FALSE]

\* a variant whose running loss starts as a zero scalar instead of None
FreshStateZero(n) == [loss_none |-> FALSE, loss |-> [k \in 1..n |-> 0], task_label_ind |-> 0]

\* a variant whose cursor starts one column in
FreshStateCursorOne(n) == [loss_none |-> TRUE, loss |-> [k \in 1..n |-> 0], task_label_ind |-> 1]

\* state = dict(loss=None, task_label_ind=0)
FreshState(n) == [loss_none |-> TRUE, loss |-> [k \in 1..n |-> 0], task_label_ind |-> 0]

Idle(c, p, bag) ==
    /\ cfg = c
    /\ pc = p
    /\ error = ""
    /\ model = NoModel
    /\ labels = NoLabels
    /\ event_tokens = NoEventTokens
    /\ kw_in = bag
    /\ kw_out = <<>>
    /\ warnings = <<>>
    /\ task_ind = 0
    /\ logits = <<>>
    /\ state = FreshState(0)
    /\ features = NoTensor
    /\ head_in = NoTensor
    /\ reads = <<>>
    /\ result = NoResult
    /\ recalled = FALSE

Init == \E c \in Configs : Idle(c, "new", <<>>)

(***************************************************************************)
(* Inputs of a forward call.                                               *)
(***************************************************************************)
LabelInputs == {NoLabels} \cup {[present |-> TRUE, ndim |-> r] : r \in 0..MaxRank}

\* event_tokens: a 0/1 mask of shape (batch, seq); the examples of odd index
\* share one pattern and those of even index share that one or its complement
MaskInputs ==
    { [present |-> TRUE,
       shape |-> <<Batch, SeqLen>>,
       val |-> [ix \in Indices(<<Batch, SeqLen>>) |->
                  IF ix[1] % 2 = 1 \/ ~flip THEN p[ix[2]] ELSE 1 - p[ix[2]]]] :
        p \in [1..SeqLen -> {0, 1}], flip \in BOOLEAN }

EventInputs(config) == IF config.tokens THEN MaskInputs ELSE {NoEventTokens}

\* the keyword bag forward hands to generalize_encoder_forward_kwargs
CallKwargs ==
    << [name |-> "attention_mask", value |-> "tensor"],
       [name |-> "token_type_ids", value |-> "tensor"],
       [name |-> "position_ids", value |-> "None"],
       [name |-> "head_mask", value |-> "None"],
       [name |-> "inputs_embeds", value |-> "None"],
       [name |-> "output_attentions", value |-> "None"],
       [name |-> "output_hidden_states", value |-> "True"],
       [name |-> "return_dict", value |-> "True"] >>

(***************************************************************************)
(* Actions.                                                                *)
(***************************************************************************)
\* CnlpModelForClassification(config, ...)
Construct ==
    /\ pc = "new"
    /\ \E darts \in DartSets(cfg.freeze) :
          LET m == ModelInit(cfg, darts)
          IN  /\ model' = m
              /\ error' = m.error
              /\ pc' = IF m.error = "" THEN "constructed" ELSE "ctor_failed"
    /\ UNCHANGED <<cfg, labels, event_tokens, kw_in, kw_out, warnings, task_ind,
                   logits, state, features, head_in, reads, result, recalled>>

\* forward, up to its loop over the tasks: the keyword filter, the encoder
\* call, logits = [] and state = dict(loss=None, task_label_ind=0)
ForwardCall ==
    /\ pc \in {"constructed", "returned", "raised"}
    /\ \E lab \in LabelInputs, ev \in EventInputs(cfg) :
          LET filtered == generalize_encoder_forward_kwargs(cfg.encoder, CallKwargs)
          IN  /\ labels' = lab
              /\ event_tokens' = ev
              /\ kw_in' = CallKwargs
              /\ kw_out' = filtered.new_kwargs
              /\ warnings' = filtered.warnings
    /\ logits' = <<>>
    /\ state' = FreshState(Len(model.tasks))
    /\ task_ind' = 0
    /\ features' = NoTensor
    /\ head_in' = NoTensor
    /\ reads' = <<>>
    /\ result' = NoResult
    /\ error' = ""
    /\ pc' = "loop"
    /\ recalled' = (pc # "constructed")
    /\ UNCHANGED <<cfg, model>>

\* a variant that puts the logits of the task in front of the list
PrependLogits(all_logits, task_logits) == <<task_logits>> \o all_logits

\* logits.append(task_logits)
AppendLogits(all_logits, task_logits) == Append(all_logits, task_logits)

\* an exception leaves forward: nothing is returned
Raise(err) ==
    /\ error' = err
    /\ pc' = "raised"
    /\ UNCHANGED <<task_ind, result>>

\* one iteration of the loop over self.tasks
TaskStep ==
    /\ pc = "loop"
    /\ task_ind < Len(model.tasks)
    /\ LET task_name == model.tasks[task_ind + 1]
           task_num_labels == NumLabels(model, task_name)
           layer == model.feature_extractors[task_name]
           head == model.classifiers[task_name]
           hidden_states == HiddenStates(cfg.encoder)
           xerr == ExtractError(layer, hidden_states, event_tokens)
           x == Extract(layer, task_name, hidden_states, event_tokens)
           fan == IF model.use_prior_tasks /\ model.relations[task_name]
                  THEN predict_relations_with_previous_logits(x, logits)
                  ELSE [features |-> x, warnings |-> <<>>]
           herr == HeadError(head, fan.features)
           task_logits == [task |-> task_name, shape |-> HeadShape(head, fan.features)]
           lerr == LossError(model, labels, task_ind, task_num_labels, SeqLen, state)
       IN  IF xerr # ""
           THEN /\ Raise(xerr)
                /\ features' = NoTensor
                /\ head_in' = NoTensor
                /\ UNCHANGED <<warnings, logits, state, reads>>
           ELSE /\ features' = x
                /\ head_in' = fan.features
                /\ warnings' = warnings \o fan.warnings
                /\ IF herr # ""
                   THEN /\ Raise(herr)
                        /\ UNCHANGED <<logits, state, reads>>
                   ELSE /\ logits' = AppendLogits(logits, task_logits)
                        /\ IF ~labels.present
                           THEN /\ task_ind' = task_ind + 1
                                /\ UNCHANGED <<state, reads, error, pc, result>>
                           ELSE IF lerr # ""
                           THEN /\ Raise(lerr)
                                /\ UNCHANGED <<state, reads>>
                           ELSE /\ state' = compute_loss(model, labels, task_ind,
                                                         task_num_labels, SeqLen, state)
                                /\ reads' = Append(reads,
                                      [task |-> task_name,
                                       cursor |-> state.task_label_ind,
                                       loss_fct |-> LossFct(task_num_labels),
                                       index |-> LabelIndex(model, labels, task_ind,
                                                            task_num_labels, SeqLen, state)])
                                /\ task_ind' = task_ind + 1
                                /\ UNCHANGED <<error, pc, result>>
    /\ UNCHANGED <<cfg, model, labels, event_tokens, kw_in, kw_out, recalled>>

\* return SequenceClassifierOutput(loss=state["loss"], logits=logits, ...)
ForwardReturn ==
    /\ pc = "loop"
    /\ task_ind = Len(model.tasks)
    /\ result' = [returned |-> TRUE, loss_none |-> state.loss_none,
                  loss |-> state.loss, logits |-> logits]
    /\ pc' = "returned"
    /\ UNCHANGED <<cfg, error, model, labels, event_tokens, kw_in, kw_out, warnings,
                   task_ind, logits, state, features, head_in, reads, recalled>>

Next == Construct \/ ForwardCall \/ TaskStep \/ ForwardReturn

Spec == Init /\ [][Next]_vars

(***************************************************************************)
(* generalize_encoder_forward_kwargs alone: every encoder signature and    *)
(* every keyword bag over the first MaxKw keyword names.                   *)
(***************************************************************************)
KwUniverse == {KwNames[k] : k \in 1..MaxKw}

KwValues == {"None", "a", "b"}

\* the bags: sequences of (name, value) pairs with distinct names
KwBags ==
    UNION { { bag \in [1..n -> [name : KwUniverse, value : KwValues]] :
                \A i, j \in 1..n : i # j => bag[i].name # bag[j].name } :
            n \in 0..MaxKw }

KwConfig(params) ==
    MkConfig(<<>>, FALSE, DefaultLayer, 1, FALSE, WeightUnit,
             [model_type |-> "bert", depth |-> 1, params |-> params])

InitKw ==
    \E params \in SUBSET KwUniverse, bag \in KwBags :
        Idle(KwConfig(params), "kw", bag)

\* new_kwargs = generalize_encoder_forward_kwargs(encoder, **kwargs)
GeneralizeCall ==
    /\ pc = "kw"
    /\ LET filtered == generalize_encoder_forward_kwargs(cfg.encoder, kw_in)
       IN  /\ kw_out' = filtered.new_kwargs
           /\ warnings' = filtered.warnings
    /\ pc' = "kw_done"
    /\ UNCHANGED <<cfg, error, model, labels, event_tokens, kw_in, task_ind, logits,
                   state, features, head_in, reads, result, recalled>>

NextKw == GeneralizeCall

SpecKw == InitKw /\ [][NextKw]_vars

(***************************************************************************)
(* Properties.                                                             *)
(***************************************************************************)
InForward == pc \in {"loop", "returned", "raised"}

\* the (1-based) position in self.tasks of the iteration the variables features
\* and head_in belong to: the one that raised, or else the last one completed
LastInd == IF pc = "raised" THEN task_ind + 1 ELSE task_ind

LastTaskName == model.tasks[LastInd]

\* the logits the iteration of LastInd found in the list
PriorLogits == SubSeq(logits, 1, LastInd - 1)

IsTaggingLogits(l) == Len(l.shape) = 3

\* C1: with labels supplied, the returned loss is the sum of the losses of all
\* tasks but the last, each with weight 1.0, plus final_task_weight times the
\* loss of the last task, also when the last task is the only one.
C1_FinalTaskWeighted ==
    (result.returned /\ labels.present) =>
        \A k \in 1..Len(model.tasks) :
            result.loss[k] = IF k < Len(model.tasks) THEN WeightUnit
                             ELSE cfg.final_task_weight

\* C2: a forward pass that returns, returns one logits tensor per declared task,
\* the k-th being the logits of the k-th task of config.finetuning_task.
C2_LogitsInTaskOrder ==
    result.returned =>
        /\ Len(result.logits) = Len(cfg.finetuning_task)
        /\ \A k \in 1..Len(result.logits) :
              result.logits[k].task = cfg.finetuning_task[k]

C2_Witness ==
    /\ result.returned
    /\ Len(result.logits) = MaxTasks
    /\ cfg.relations[result.logits[MaxTasks].task]
    /\ cfg.tagger[result.logits[1].task]

\* C3: a forward pass that returns, returns the logits of every task with and
\* without labels, and its loss is None exactly when no labels were given (or
\* there is no task at all).
C3_LossIffLabels ==
    result.returned =>
        /\ Len(result.logits) = Len(model.tasks)
        /\ result.loss_none <=> (~labels.present \/ Len(model.tasks) = 0)
        /\ result.loss_none => \A k \in 1..Len(model.tasks) : result.loss[k] = 0
        /\ ~result.loss_none => \A k \in 1..Len(model.tasks) : result.loss[k] > 0

C3_Witness ==
    /\ result.returned
    /\ labels.present
    /\ ~result.loss_none
    /\ Len(result.logits) = MaxTasks

\* the iteration about to run feeds prior logits, with fan-in enabled, only in
\* combinations the tagging-to-relation rule does not cover
OnlyUnsupportedFanIn ==
    /\ pc = "loop"
    /\ task_ind < Len(model.tasks)
    /\ model.use_prior_tasks
    /\ logits # <<>>
    /\ \/ ~model.relations[model.tasks[task_ind + 1]]
       \/ \A k \in 1..Len(logits) : ~IsTaggingLogits(logits[k])

\* C4: an iteration whose fan-in combinations are all unsupported skips the
\* augmentation, emits a diagnostic, hands the features to the head unmodified
\* and completes (only the loss may still fail, for its own reasons).
C4_UnsupportedFanInSkipped ==
    [][OnlyUnsupportedFanIn =>
          /\ head_in' = features'
          /\ Len(warnings') > Len(warnings)
          /\ Len(logits') = Len(logits) + 1
          /\ pc' = "raised" => (labels.present /\ error' \in {RankError, TooManyIndices})]_vars

\* the iteration of LastInd ran the fan-in of a relation task
FanInRan ==
    /\ InForward
    /\ LastInd >= 1
    /\ LastInd <= Len(model.tasks)
    /\ features # NoTensor
    /\ model.use_prior_tasks
    /\ model.relations[LastTaskName]

\* the prior logits of tagging tasks, in list order
TaggingPriors == SelectSeq(PriorLogits, IsTaggingLogits)

\* where, on the last axis of head_in, the logits of the m-th tagging prior start
AugOffset(m) ==
    LastDim(features) + SumSeq([j \in 1..(m - 1) |-> LastDim(TaggingPriors[j])])

\* C5: in the fan-in of a relation task the augmented feature keeps its first
\* three axes, its last axis grows by the label count of every prior tagging
\* task, the entries of the relation feature are unchanged, and the entries
\* appended for a prior tagging task are its logits, copied: entry (b, i, r, c)
\* is logit (b, i, c) for every index r of the repeated axis.
C5_FanInAugmentation ==
    FanInRan =>
        /\ Len(head_in.shape) = 4
        /\ \A k \in 1..3 : head_in.shape[k] = features.shape[k]
        /\ LastDim(head_in) = AugOffset(Len(TaggingPriors) + 1)
        /\ \A ix \in Indices(features.shape) : head_in.val[ix] = features.val[ix]
        /\ \A m \in 1..Len(TaggingPriors) :
              LET prior == LogitsTensor(TaggingPriors[m].task, TaggingPriors[m].shape)
              IN  \A ix \in Indices(prior.shape), r \in 1..head_in.shape[3] :
                     head_in.val[<<ix[1], ix[2], r, AugOffset(m) + ix[3]>>] = prior.val[ix]

C5_Witness ==
    /\ FanInRan
    /\ pc = "loop"
    /\ Len(TaggingPriors) = MaxTasks - 1
    /\ LastDim(head_in) = LastDim(features) + (MaxTasks - 1) * MaxLabels

TokensWithTaggerOrRelation ==
    /\ cfg.tokens
    /\ \E k \in 1..Len(cfg.label_dictionary) :
          \/ cfg.tagger[cfg.label_dictionary[k].name]
          \/ cfg.relations[cfg.label_dictionary[k].name]

\* C6: a configuration with token pooling and a tagger or relation flag on some
\* task fails in the constructor and never reaches a forward pass; and the
\* tokens error is raised for no other configuration.
C6_TokensRejectedAtConstruction ==
    /\ (TokensWithTaggerOrRelation /\ pc # "new") => (pc = "ctor_failed" /\ error # "")
    /\ (error = TokensError) => (TokensWithTaggerOrRelation /\ pc = "ctor_failed")

C6_Witness ==
    /\ pc = "ctor_failed"
    /\ error = TokensError
    /\ \E k \in 1..Len(cfg.label_dictionary) : cfg.tagger[cfg.label_dictionary[k].name]

\* the number of positions the mask flags for example b
Flagged(b) == { i \in 1..SeqLen : event_tokens.val[<<b, i>>] = 1 }

\* the sum of the hidden values of layer l over the flagged positions
FlaggedSum(l, b, d) ==
    SumSeq([i \in 1..SeqLen |->
              IF i \in Flagged(b) THEN HiddenStates(cfg.encoder)[l].val[<<b, i, d>>]
              ELSE 0])

\* C7: in token-pooling mode the extracted feature of every example is the sum
\* of the hidden vectors of the flagged positions divided by their number, and
\* an example without flagged positions gets a defined value (or extraction
\* raises) instead of a silent division by zero.
C7_MaskedMeanDefined ==
    (InForward /\ cfg.tokens /\ features # NoTensor) =>
        \A ix \in Indices(features.shape) :
            LET e == features.val[ix]
                b == ix[1]
            IN  /\ e.v.fp = "finite"
                /\ e.v.den = Cardinality(Flagged(b))
                /\ e.v.num = FlaggedSum(PyIndexPos(cfg.encoder.depth + 1, cfg.layer), b, ix[2])

\* the keys of a bag
KwKeys(bag) == {bag[k].name : k \in 1..Len(bag)}

\* C8: the bag generalize_encoder_forward_kwargs returns holds exactly the
\* candidate keys the encoder's forward accepts, each with its original value
\* (None included); a diagnostic is emitted for a key exactly when it is not
\* accepted and its value is not None; the input bag and the encoder are left
\* as they were.
C8_KwargsFiltered ==
    [][pc = "kw" =>
          /\ kw_in' = kw_in
          /\ cfg' = cfg
          /\ KwKeys(kw_out') = KwKeys(kw_in) \cap cfg.encoder.params
          /\ \A k \in 1..Len(kw_out') : \E j \in 1..Len(kw_in) : kw_out'[k] = kw_in[j]
          /\ Len(kw_out') = Cardinality(KwKeys(kw_out'))
          /\ \A j \in 1..Len(kw_in) :
                (\E k \in 1..Len(warnings') : warnings'[k].about = kw_in[j].name)
                    <=> (kw_in[j].name \notin cfg.encoder.params /\ kw_in[j].value # "None")
          /\ Len(warnings') = Cardinality({warnings'[k].about : k \in 1..Len(warnings')})]_vars

C8_Witness ==
    /\ pc = "kw_done"
    /\ \E j \in 1..Len(kw_out) : kw_out[j].value = "None"
    /\ Len(warnings) >= 1
    /\ Len(kw_in) > Len(kw_out) + Len(warnings)

\* task k of self.tasks is a plain classification task with more than one label
PlainMultiLabel(k) ==
    /\ IsPlain(model, model.tasks[k])
    /\ NumLabels(model, model.tasks[k]) > 1

\* C9: a forward pass with labels raises NotImplementedError exactly at a plain
\* classification task with more than one label whose label tensor has a rank
\* above 3: such a task never completes with that rank, and the error is raised
\* for no task of another kind and for no rank of 1, 2 or 3.  (A label tensor
\* of rank 0 falls into the same else branch of the code.)
C9_PlainRankAboveThreeFatal ==
    /\ (InForward /\ error = RankError) =>
          /\ pc = "raised"
          /\ labels.present
          /\ labels.ndim \notin {1, 2, 3}
          /\ PlainMultiLabel(task_ind + 1)
    /\ (InForward /\ labels.present /\ labels.ndim > 3) =>
          \A k \in 1..task_ind : ~PlainMultiLabel(k)

C9_Witness ==
    /\ pc = "raised"
    /\ error = RankError
    /\ labels.ndim = 4
    /\ task_ind = 1

\* C10: construction raises the layer error exactly when config.layer is
\* greater than the number of layers of the encoder.
C10_LayerCheckedAgainstDepth ==
    pc # "new" =>
        ((pc = "ctor_failed" /\ error = LayerError) <=> cfg.layer > cfg.encoder.depth)

C10_Witness ==
    /\ pc = "ctor_failed"
    /\ error = LayerError
    /\ cfg.layer = cfg.encoder.depth + 1

\* the read selects a part of the label tensor: some axis is indexed or sliced
SelectsPart(index) == \E a \in 1..Len(index) : index[a] # All

\* the label tensor holds the labels of several tasks, one column per task
\* (the layout the plain classification branch addresses by labels[:, task_ind])
SeveralTaskColumns == labels.present /\ labels.ndim >= 2 /\ Len(model.tasks) >= 2

\* C11: the loss of a regression task (one label) is the mean squared error of
\* the task's predictions against the labels of this task only, whatever other
\* tasks are declared: when the label tensor holds the columns of several
\* tasks, what the regression task compares with is a selection of it, never
\* the whole tensor.
C11_RegressionOwnLabels ==
    InForward =>
        \A k \in 1..Len(reads) :
            NumLabels(model, reads[k].task) = 1 =>
                /\ reads[k].loss_fct = "MSELoss"
                /\ SeveralTaskColumns => SelectsPart(reads[k].index)

Constructed == pc \notin {"new", "ctor_failed", "kw", "kw_done"}

Frozen(p) == ~model.requires_grad[p]

\* the stochastic policy freezes p: freeze is 1.0 or more, or the dart drawn
\* for p fell below freeze
StochasticFreezes(p) ==
    /\ cfg.freeze > 0
    /\ cfg.freeze >= FreezeUnit \/ model.darts[p] < cfg.freeze

\* the bias-only policy freezes p
BiasOnlyFreezes(p) == cfg.bias_fit /\ ~NameContains(p, "bias")

PlainRead(k) ==
    /\ IsPlain(model, reads[k].task)
    /\ NumLabels(model, reads[k].task) > 1

\* C13: the label column a plain classification task with more than one label
\* reads from a label tensor of rank 2 or 3 is the column at the value the
\* cursor has when the task is processed, whatever tasks precede it.
C13_PlainReadsAtCursor ==
    (InForward /\ labels.present /\ labels.ndim \in {2, 3}) =>
        \A k \in 1..Len(reads) :
            PlainRead(k) =>
                reads[k].index[Len(reads[k].index)] = At(reads[k].cursor)

\* the advance of the cursor the task of read k is due
DueAdvance(k) ==
    LET task_name == reads[k].task
    IN  IF NumLabels(model, task_name) = 1 THEN 0
        ELSE IF model.relations[task_name] THEN SeqLen
        ELSE 1

\* the cursor after the first k reads
CursorAfter(k) == SumSeq([j \in 1..k |-> DueAdvance(j)])

\* C14: in a forward pass with labels the cursor starts at 0 and each processed
\* task advances it by the sequence length (relation task with more than one
\* label), by 1 (tagging or plain classification task with more than one
\* label) or by 0 (one label); a relation task reads the slice
\* [cursor, cursor + sequence length) of the last label axis and a tagging task
\* with rank-3 labels the column at the cursor, both at the cursor's value
\* before the advance.
C14_CursorAdvances ==
    (InForward /\ labels.present) =>
        /\ Len(reads) = task_ind
        /\ state.task_label_ind = CursorAfter(Len(reads))
        /\ \A k \in 1..Len(reads) :
              LET r == reads[k]
                  multi == NumLabels(model, r.task) > 1
              IN  /\ r.task = model.tasks[k]
                  /\ r.cursor = CursorAfter(k - 1)
                  /\ (multi /\ model.relations[r.task]) =>
                        /\ Len(r.index) = labels.ndim
                        /\ r.index[labels.ndim] = Range(r.cursor, r.cursor + SeqLen)
                        /\ \A a \in 1..(labels.ndim - 1) : r.index[a] = All
                  /\ (multi /\ ~model.relations[r.task] /\ model.tagger[r.task]
                        /\ labels.ndim = 3) =>
                        r.index = <<All, All, At(r.cursor)>>

C14_Witness ==
    /\ result.returned
    /\ labels.present
    /\ labels.ndim = 3
    /\ Len(reads) = MaxTasks
    /\ model.relations[reads[1].task]
    /\ model.tagger[reads[MaxTasks].task]
    /\ NumLabels(model, reads[MaxTasks].task) > 1
    /\ reads[MaxTasks].cursor >= SeqLen
    /\ state.task_label_ind = reads[MaxTasks].cursor + 1

\* C15: in the fan-in of a relation task, entry (b, i, j) of the relation grid
\* is the score of the query of token i against the key of token j, and the
\* values appended to it for a prior tagging task are that task's logits of
\* token j.
C15_AppendedLogitsOfKeyToken ==
    FanInRan =>
        /\ \A ix \in Indices(features.shape) :
              features.val[ix].ix = <<ix[1], ix[4], ix[2], ix[3]>>
        /\ \A m \in 1..Len(TaggingPriors) :
              LET prior == LogitsTensor(TaggingPriors[m].task, TaggingPriors[m].shape)
              IN  \A b \in 1..Batch, i \in 1..SeqLen, j \in 1..SeqLen,
                     c \in 1..LastDim(prior) :
                     head_in.val[<<b, i, j, AugOffset(m) + c>>] = prior.val[<<b, j, c>>]

\* the features of the last iteration were extracted (no error in extraction)
Extracted ==
    /\ InForward
    /\ LastInd >= 1
    /\ LastInd <= Len(model.tasks)
    /\ features # NoTensor

\* the scaled scores: what the relation branch computes
ScoreOps == <<"matmul(query,key^T)", "/sqrt(head_size)">>

\* the feature is the grid of the scaled scores of every ordered pair and head,
\* with the layers `after` applied to every entry
IsScoreGrid(after) ==
    /\ features.shape = <<Batch, SeqLen, SeqLen, cfg.num_rel_attention_heads>>
    /\ \A ix \in Indices(features.shape) :
          /\ features.val[ix].src = "score"
          /\ features.val[ix].ix = <<ix[1], ix[4], ix[2], ix[3]>>
          /\ features.val[ix].ops = ScoreOps \o after

\* every entry of the feature went through the layers `after` and nothing else
AllThrough(after) ==
    \A ix \in Indices(features.shape) : features.val[ix].ops = after

RelationMode == ~cfg.tokens /\ ~cfg.tagger[LastTaskName] /\ cfg.relations[LastTaskName]

\* C16 (as stated): the relation feature is the scaled score grid itself, and
\* dropout, the linear transform and tanh are applied in every mode but
\* relation mode.
C16_RelationScoresReturnedRaw ==
    Extracted =>
        IF RelationMode THEN IsScoreGrid(<<>>)
        ELSE AllThrough(<<"dropout", "dense", "tanh">>)

\* C16 (amended): dropout, the transform and tanh are applied in every mode,
\* relation mode included, where the transform is the identity: the relation
\* feature is the scaled score grid of shape (batch, sequence, sequence, heads)
\* passed through dropout and tanh; in the other modes the transform is the
\* learned linear layer.
C16_RelationScoresPostProcessed ==
    Extracted =>
        IF RelationMode THEN IsScoreGrid(<<"dropout", "identity", "tanh">>)
        ELSE AllThrough(<<"dropout", "dense", "tanh">>)

C16_Witness ==
    /\ Extracted
    /\ RelationMode
    /\ pc = "loop"
    /\ features.val[<<1, 1, SeqLen, 1>>].ops = ScoreOps \o <<"dropout", "identity", "tanh">>

\* a step that enters forward, from a fresh model or after an earlier call
CallStarts == pc \in {"constructed", "returned", "raised"} /\ pc' = "loop"

\* C17: every forward call, whatever calls came before it and however they
\* ended, starts with the running loss None, the cursor at 0, no logits and no
\* task processed, and iterates the declared task order; no step of a forward
\* pass changes the model.
C17_NoCrossCallState ==
    [][/\ CallStarts =>
             /\ state'.loss_none
             /\ state'.task_label_ind = 0
             /\ \A k \in 1..Len(state'.loss) : state'.loss[k] = 0
             /\ logits' = <<>>
             /\ task_ind' = 0
             /\ reads' = <<>>
             /\ result' = NoResult
       /\ InForward \/ pc = "constructed" =>
             /\ model' = model
             /\ cfg' = cfg
             /\ model.tasks = cfg.finetuning_task]_vars

C17_Witness ==
    /\ recalled
    /\ pc = "loop"
    /\ task_ind = 0
    /\ labels.present
    /\ Len(model.tasks) = MaxTasks
    /\ state.loss_none
    /\ logits = <<>>

\* every task the loop processed before the task of LastInd is a tagging task
OnlyTaggingBefore == \A k \in 1..(LastInd - 1) : model.tagger[model.tasks[k]]

\* C18: with fan-in enabled, when only tagging tasks were evaluated before a
\* relation task, the input width of the relation task's head, fixed at
\* construction, equals the trailing dimension of the augmented feature the
\* forward pass gives it, and the head applies.
C18_HeadWidthMatchesAugmentedFeature ==
    (FanInRan /\ OnlyTaggingBefore) =>
        /\ model.classifiers[LastTaskName].in_features = LastDim(head_in)
        /\ error # ShapeError

\* C19: a layer index the constructor accepts, negative ones included, selects
\* an entry of the tuple of depth + 1 hidden states, so that no forward pass
\* fails in feature extraction because of the layer index.
C19_AcceptedLayerSelectsHiddenState ==
    Constructed =>
        /\ PyIndexOk(cfg.encoder.depth + 1, cfg.layer)
        /\ error # "IndexError: tuple index out of range"

====
